---- MODULE Spec2Model ----
(***************************************************************************)
(* Habit store and statistics engine of habit-tracker-svelte               *)
(* (src/src/lib/db/index.ts).  The two localStorage entries are the state; *)
(* every exported function is one action.  Calendar days are numbered from *)
(* 1970-01-01 (day 0, a Thursday); a "YYYY-MM-DD" key is the number of its *)
(* day.  A Date object is the pair of the UTC day and the local calendar   *)
(* day of its instant: toISOString reads the first, getFullYear, getMonth, *)
(* getDate read the second.  The zone is UTC or lies west of it, and its   *)
(* offset is fixed over the days modelled (the weeks around the turn of    *)
(* the year, in which no zone changes its offset), so that a step of one   *)
(* local day is a step of one UTC day.  An entry of localStorage is        *)
(* absent, holds a JSON value, or holds text that is not JSON.             *)
(* The page (src/unnamed/part_001) is the variables of its script and one  *)
(* action per event it handles; each handler is one step, with the calls   *)
(* of the engine it makes.                                                 *)
(***************************************************************************)
EXTENDS Integers, Sequences, FiniteSets, TLC

VARIABLES storedHabits, storedCompletions, malformed, today, localDay, tz,
          ticks, lastOp, lastToggle,
          pageHabits, selectedIndex, isAddingHabit, isEditingHabit, showingDetails,
          newHabitName, newHabitFrequency, newHabitTarget, editingHabit,
          lastKey, threw

\* The storage, the clock and the history of the engine.
engine == <<storedHabits, storedCompletions, malformed, today, localDay, tz,
            ticks, lastOp, lastToggle>>

\* The variables of the page's script, and the last event it handled.
ui == <<pageHabits, selectedIndex, isAddingHabit, isEditingHabit, showingDetails,
        newHabitName, newHabitFrequency, newHabitTarget, editingHabit,
        lastKey, threw>>

vars == <<engine, ui>>

\* ------------------------------------------------------------------ bounds
MaxId == 2
MaxTicks == 2
MaxDays == 1
Jumps == {1, 7, 364}
Names == {"Exercise"}
Targets == {1, 2}
Frequencies == {"daily", "weekly", "monthly"}
Ids == 1..MaxId

\* ------------------------------------------------------- Date built-ins
\* Day number of the civil date y-m-d (m in 1..12), proleptic Gregorian.
DaysFromCivil(y, m, d) ==
  LET yy  == IF m <= 2 THEN y - 1 ELSE y
      era == yy \div 400
      yoe == yy - era * 400
      mp  == IF m > 2 THEN m - 3 ELSE m + 9
      doy == (153 * mp + 2) \div 5 + d - 1
      doe == yoe * 365 + yoe \div 4 - yoe \div 100 + doy
  IN  era * 146097 + doe - 719468

\* Civil date of a day number; month is 0-based as Date.getMonth has it.
CivilFromDays(z0) ==
  LET z   == z0 + 719468
      era == z \div 146097
      doe == z - era * 146097
      yoe == (doe - doe \div 1460 + doe \div 36524 - doe \div 146096) \div 365
      doy == doe - (365 * yoe + yoe \div 4 - yoe \div 100)
      mp  == (5 * doy + 2) \div 153
      d   == doy - (153 * mp + 2) \div 5 + 1
      m   == IF mp < 10 THEN mp + 3 ELSE mp - 9
      y   == yoe + era * 400 + (IF m <= 2 THEN 1 ELSE 0)
  IN  [year |-> y, month |-> m - 1, date |-> d]

\* Date.getUTCDay of the UTC midnight of a day number: 0 is Sunday.
getUTCDay(z) == (z + 4) % 7

\* new Date(): the instant of the call.
Now == [utc |-> today, loc |-> localDay]

\* new Date("YYYY-MM-DD"): UTC midnight of the key's day, which west of
\* Greenwich is still the evening of the day before.
ParseKey(k) == [utc |-> k, loc |-> IF tz < 0 THEN k - 1 ELSE k]

getFullYear(date) == CivilFromDays(date.loc).year
getMonth(date) == CivilFromDays(date.loc).month

\* new Date().toISOString().split('T')[0]
getTodayKey == today

\* ------------------------------------------------------------------ storage
\* An entry is absent ({}) or holds one value ({v}).
Value(entry, empty) == IF entry = {} THEN empty ELSE CHOOSE v \in entry : TRUE

STORAGE_KEY == "habitflow_habits"
COMPLETIONS_KEY == "habitflow_completions"

\* malformed holds the keys whose content is not JSON: JSON.parse throws a
\* SyntaxError on it, and storedHabits or storedCompletions tells nothing
\* about it.  No call writes under a key whose content it could not parse.
IsMalformed(key) == key \in malformed

\* JSON.parse(localStorage.getItem(STORAGE_KEY) || '[]')
LoadHabits == Value(storedHabits, <<>>)
\* JSON.parse(localStorage.getItem(COMPLETIONS_KEY) || '{}')
LoadCompletions == Value(storedCompletions, <<>>)

Range(s) == {s[i] : i \in DOMAIN s}

\* Array.prototype.filter(x => x !== id)
Without(s, id) == SelectSeq(s, LAMBDA x : x # id)

\* completions[key]?.includes(id)
Includes(completions, key, id) ==
  key \in DOMAIN completions /\ id \in Range(completions[key])

HabitIds(habits) == {habits[i].id : i \in DOMAIN habits}
\* habits.findIndex(h => h.id === id), 0 when there is none
FindIndex(habits, id) ==
  IF id \in HabitIds(habits)
  THEN CHOOSE i \in DOMAIN habits :
         habits[i].id = id /\ \A j \in 1..(i - 1) : habits[j].id # id
  ELSE 0

SetMax(S) == CHOOSE x \in S : \A y \in S : y <= x

\* ------------------------------------------------------------------ weeks
getWeekNumber(date) ==
  LET d0        == date.loc
      dayNum    == IF getUTCDay(d0) = 0 THEN 7 ELSE getUTCDay(d0)
      d         == d0 + 4 - dayNum
      yearStart == DaysFromCivil(CivilFromDays(d).year, 1, 1)
  IN  ((d - yearStart) + 1 + 6) \div 7

\* ------------------------------------------------------------------ streak
\* A walk that counts every day that has a bucket, whoever is in it.
RECURSIVE DailyWalkAnyBucket(_, _, _, _)
DailyWalkAnyBucket(completions, id, k, streak) ==
  IF k \notin DOMAIN completions THEN streak
  ELSE DailyWalkAnyBucket(completions, id, k - 1, streak + 1)

\* A walk that, with today not completed yet, counts from the day before.
RECURSIVE DailyWalkWithGrace(_, _, _, _)
DailyWalkWithGrace(completions, id, k, streak) ==
  IF Includes(completions, k, id)
  THEN DailyWalkWithGrace(completions, id, k - 1, streak + 1)
  ELSE IF streak = 0 /\ Includes(completions, k - 1, id)
       THEN DailyWalkWithGrace(completions, id, k - 2, 1)
       ELSE streak

\* updateStreak, case 'daily': the walk of lines 152-158 from key k.
RECURSIVE DailyWalk(_, _, _, _)
DailyWalk(completions, id, k, streak) ==
  IF ~Includes(completions, k, id) THEN streak
  ELSE DailyWalk(completions, id, k - 1, streak + 1)

\* Object.keys(completions).some(date => getWeekNumber(new Date(date)) === week
\*                                      && completions[date].includes(id))
WeekHasCompletion(completions, id, week) ==
  \E date \in DOMAIN completions :
    getWeekNumber(ParseKey(date)) = week /\ Includes(completions, date, id)

\* updateStreak, case 'weekly': the loop of lines 165-174.
RECURSIVE WeeklyWalk(_, _, _, _)
WeeklyWalk(completions, id, currentWeek, streak) ==
  IF WeekHasCompletion(completions, id, currentWeek)
  THEN WeeklyWalk(completions, id, currentWeek - 1, streak + 1)
  ELSE streak

MonthHasCompletion(completions, id, month, year) ==
  \E date \in DOMAIN completions :
    /\ getMonth(ParseKey(date)) = month
    /\ getFullYear(ParseKey(date)) = year
    /\ Includes(completions, date, id)

\* updateStreak, case 'monthly': the loop of lines 182-197.
RECURSIVE MonthlyWalk(_, _, _, _, _)
MonthlyWalk(completions, id, currentMonth, currentYear, streak) ==
  IF MonthHasCompletion(completions, id, currentMonth, currentYear)
  THEN IF currentMonth - 1 < 0
       THEN MonthlyWalk(completions, id, 11, currentYear - 1, streak + 1)
       ELSE MonthlyWalk(completions, id, currentMonth - 1, currentYear, streak + 1)
  ELSE streak

\* The streak updateStreak computes for a habit of the given frequency.
ComputeStreak(completions, id, frequency) ==
  CASE frequency = "daily"   -> DailyWalk(completions, id, Now.utc, 0)
    [] frequency = "weekly"  -> WeeklyWalk(completions, id, getWeekNumber(Now), 0)
    [] frequency = "monthly" ->
         MonthlyWalk(completions, id, getMonth(Now), getFullYear(Now), 0)

\* A refresh of the streak of every habit of the list.
updateStreakOfAll(habitsEntry, completions, habitId) ==
  LET habits == Value(habitsEntry, <<>>)
  IN  IF FindIndex(habits, habitId) = 0 THEN habitsEntry
      ELSE {[i \in DOMAIN habits |->
               [habits[i] EXCEPT !.streak =
                  ComputeStreak(completions, habits[i].id, habits[i].frequency)]]}

\* updateStreak(habitId): the habit list it leaves in storage, given the
\* two entries it reads.
updateStreak(habitsEntry, completions, habitId) ==
  LET habits == Value(habitsEntry, <<>>)
      index  == FindIndex(habits, habitId)
  IN  IF index = 0 THEN habitsEntry
      ELSE {[habits EXCEPT ![index].streak =
               ComputeStreak(completions, habitId, habits[index].frequency)]}

\* ------------------------------------------------------------------ stats
isCompleted(habit, completions) ==
  CASE habit.frequency = "daily" -> Includes(completions, getTodayKey, habit.id)
    [] habit.frequency = "weekly" ->
         \E date \in DOMAIN completions :
           /\ getWeekNumber(ParseKey(date)) = getWeekNumber(Now)
           /\ Includes(completions, date, habit.id)
    [] habit.frequency = "monthly" ->
         \E date \in DOMAIN completions :
           /\ getMonth(ParseKey(date)) = getMonth(Now)
           /\ Includes(completions, date, habit.id)
    [] OTHER -> FALSE

\* Stats whose rate is the share of the target that was met.
StatsOfRateByTarget(habits, completions, habitId) ==
  LET index == FindIndex(habits, habitId)
  IN  IF index = 0
      THEN [streak |-> 0, completed |-> 0, total_required |-> 1,
            completion_rate |-> 0]
      ELSE LET habit == habits[index]
               done  == isCompleted(habit, completions)
           IN  [streak |-> habit.streak,
                completed |-> IF done THEN 1 ELSE 0,
                total_required |-> habit.target,
                completion_rate |-> IF done THEN 100 \div habit.target ELSE 0]

\* Stats that read the index for an id no habit has.
StatsOfIndexOnly(habits, completions, habitId) ==
  LET index == FindIndex(habits, habitId)
      done  == Includes(completions, getTodayKey, habitId)
  IN  [streak |-> IF index = 0 THEN 0 ELSE habits[index].streak,
       completed |-> IF done THEN 1 ELSE 0,
       total_required |-> IF index = 0 THEN 1 ELSE habits[index].target,
       completion_rate |-> IF done THEN 100 ELSE 0]

\* The object getHabitStats returns (lines 237-286), given the two entries.
StatsOf(habits, completions, habitId) ==
  LET index == FindIndex(habits, habitId)
  IN  IF index = 0
      THEN [streak |-> 0, completed |-> 0, total_required |-> 1,
            completion_rate |-> 0]
      ELSE LET habit == habits[index]
               done  == isCompleted(habit, completions)
           IN  [streak |-> habit.streak,
                completed |-> IF done THEN 1 ELSE 0,
                total_required |-> habit.target,
                completion_rate |-> IF done THEN 100 ELSE 0]

\* getHabitStats(habitId) on the stored state.
getHabitStats(habitId) == StatsOf(LoadHabits, LoadCompletions, habitId)

\* getAllHabits(): every habit with its completion flag of today.
getAllHabits ==
  [i \in DOMAIN LoadHabits |->
     [habit |-> LoadHabits[i],
      completed |-> Includes(LoadCompletions, getTodayKey, LoadHabits[i].id)]]

\* ------------------------------------------------------------------ history
\* lastOp names the last call and its arguments; was tells whether, before
\* the call, the id was in today's bucket (a toggle) or was the id of a
\* habit and in some bucket (a delete).
\* lastToggle[id] holds the day of the last toggle of the habit that now
\* has that id, and is empty while that habit has never been toggled.
\* raised tells whether the call ended in an exception of JSON.parse.
Op(op, id, completed, was) ==
  [op |-> op, id |-> id, completed |-> completed, was |-> was,
   raised |-> FALSE]

\* The call throws: nothing of what follows the throwing line is done.
Raise(op, id, completed) ==
  [op |-> op, id |-> id, completed |-> completed, was |-> FALSE,
   raised |-> TRUE]

InAnyBucket(completions, id) ==
  \E d \in DOMAIN completions : Includes(completions, d, id)

\* ------------------------------------------------------------------ actions
InitStore ==
  /\ storedHabits = {}
  /\ storedCompletions = {}
  /\ malformed = {}
  /\ today = DaysFromCivil(2024, 12, 25)
  /\ ticks = 0
  /\ lastOp = Op("init", 0, FALSE, FALSE)
  /\ lastToggle = [i \in Ids |-> {}]

\* An initialization that writes both entries whatever they hold.
initializeDatabaseOverwrite ==
  /\ storedHabits' = {<<>>}
  /\ storedCompletions' = {<<>>}
  /\ lastOp' = Op("initialize", 0, FALSE, FALSE)
  /\ UNCHANGED <<today, localDay, tz, ticks, lastToggle, malformed>>

initializeDatabase ==
  /\ storedHabits' =
       IF storedHabits = {} /\ ~IsMalformed(STORAGE_KEY) THEN {<<>>}
       ELSE storedHabits
  /\ storedCompletions' =
       IF storedCompletions = {} /\ ~IsMalformed(COMPLETIONS_KEY) THEN {<<>>}
       ELSE storedCompletions
  /\ lastOp' = Op("initialize", 0, FALSE, FALSE)
  /\ UNCHANGED <<today, localDay, tz, ticks, lastToggle, malformed>>

\* An id rule that takes the smallest id no habit has.
NewIdFirstFree(habits) ==
  CHOOSE n \in 1..(Len(habits) + 1) :
    n \notin HabitIds(habits) /\ \A m \in 1..(n - 1) : m \in HabitIds(habits)

\* An id rule that counts the habits.
NewIdByLength(habits) == Len(habits) + 1

\* habits.length ? Math.max(...habits.map(h => h.id)) + 1 : 1
NewId(habits) ==
  IF Len(habits) # 0 THEN SetMax(HabitIds(habits)) + 1 ELSE 1

\* An add that puts the new habit in front (unshift for push).
addHabitInFront(name, frequency, target) ==
  LET habits   == LoadHabits
      newHabit == [id |-> NewId(habits), name |-> name,
                   frequency |-> frequency, target |-> target, streak |-> 0]
  IN  /\ ~IsMalformed(STORAGE_KEY)
      /\ storedHabits' = {<<newHabit>> \o habits}
      /\ lastOp' = Op("add", newHabit.id, FALSE, FALSE)
      /\ lastToggle' = [i \in Ids |-> IF i = newHabit.id THEN {}
                                      ELSE lastToggle[i]]
      /\ UNCHANGED <<storedCompletions, today, localDay, tz, ticks, malformed>>

addHabit(name, frequency, target) ==
  LET habits   == LoadHabits
      newHabit == [id |-> NewId(habits), name |-> name,
                   frequency |-> frequency, target |-> target, streak |-> 0]
  IN  IF IsMalformed(STORAGE_KEY)
      THEN /\ lastOp' = Raise("add", 0, FALSE)
           /\ UNCHANGED <<storedHabits, storedCompletions, today, localDay,
                          tz, ticks, lastToggle, malformed>>
      ELSE /\ storedHabits' = {Append(habits, newHabit)}
           /\ lastOp' = Op("add", newHabit.id, FALSE, FALSE)
           /\ lastToggle' = [i \in Ids |-> IF i = newHabit.id THEN {}
                                           ELSE lastToggle[i]]
           /\ UNCHANGED <<storedCompletions, today, localDay, tz, ticks,
                          malformed>>

\* A purge that forgets the buckets of earlier days.
PurgedTodayOnly(completions, id) ==
  [date \in DOMAIN completions |->
     IF date = getTodayKey THEN Without(completions[date], id)
     ELSE completions[date]]

\* The Completion Index deleteHabit writes (lines 101-104).
PurgedCompletions(completions, id) ==
  [date \in DOMAIN completions |-> Without(completions[date], id)]

\* A delete of the record alone, that leaves the Completion Index as it is.
deleteHabitRecordOnly(id) ==
  /\ ~IsMalformed(STORAGE_KEY)
  /\ storedHabits' = {SelectSeq(LoadHabits, LAMBDA h : h.id # id)}
  /\ lastOp' = Op("delete", id, FALSE,
                  /\ id \in HabitIds(LoadHabits)
                  /\ InAnyBucket(LoadCompletions, id))
  /\ lastToggle' = [lastToggle EXCEPT ![id] = {}]
  /\ UNCHANGED <<storedCompletions, today, localDay, tz, ticks, malformed>>

deleteHabit(id) ==
  LET habits      == LoadHabits
      completions == LoadCompletions
  IN  IF IsMalformed(STORAGE_KEY)
      THEN /\ lastOp' = Raise("delete", id, FALSE)
           /\ UNCHANGED <<storedHabits, storedCompletions, today, localDay,
                          tz, ticks, lastToggle, malformed>>
      ELSE IF IsMalformed(COMPLETIONS_KEY)
      THEN /\ storedHabits' = {SelectSeq(habits, LAMBDA h : h.id # id)}
           /\ lastOp' = Raise("delete", id, FALSE)
           /\ lastToggle' = [lastToggle EXCEPT ![id] = {}]
           /\ UNCHANGED <<storedCompletions, today, localDay, tz, ticks,
                          malformed>>
      ELSE /\ storedHabits' = {SelectSeq(habits, LAMBDA h : h.id # id)}
           /\ storedCompletions' = {PurgedCompletions(completions, id)}
           /\ lastOp' = Op("delete", id, FALSE,
                           /\ id \in HabitIds(habits)
                           /\ InAnyBucket(completions, id))
           /\ lastToggle' = [lastToggle EXCEPT ![id] = {}]
           /\ UNCHANGED <<today, localDay, tz, ticks, malformed>>

\* A merge that stamps the habit anew.
MergeStamped(habit, updates) ==
  [f \in DOMAIN habit \cup DOMAIN updates |->
     IF f = "created_at" THEN today
     ELSE IF f \in DOMAIN updates THEN updates[f] ELSE habit[f]]

\* {...habits[index], ...updates}
Merge(habit, updates) ==
  [f \in DOMAIN habit \cup DOMAIN updates |->
     IF f \in DOMAIN updates THEN updates[f] ELSE habit[f]]

\* The partial records updateHabit is called with: one field, or the three
\* the edit form sends.
Updates ==
  UNION {[name : Names], [frequency : Frequencies], [target : Targets],
         [name : Names, frequency : Frequencies, target : Targets]}

updateHabit(id, updates) ==
  LET habits == LoadHabits
      index  == FindIndex(habits, id)
  IN  IF IsMalformed(STORAGE_KEY)
      THEN /\ lastOp' = Raise("update", id, FALSE)
           /\ UNCHANGED <<storedHabits, storedCompletions, today, localDay,
                          tz, ticks, lastToggle, malformed>>
      ELSE /\ storedHabits' =
                IF index # 0
                THEN {[habits EXCEPT ![index] = Merge(habits[index], updates)]}
                ELSE storedHabits
           /\ lastOp' = Op("update", id, FALSE, FALSE)
           /\ UNCHANGED <<storedCompletions, today, localDay, tz, ticks,
                          lastToggle, malformed>>

\* A toggle that pushes without looking for the id first.
ToggledAlwaysPush(completions, todayKey, habitId, completed) ==
  LET c1 == IF todayKey \in DOMAIN completions THEN completions
            ELSE completions @@ (todayKey :> <<>>)
  IN  IF completed THEN [c1 EXCEPT ![todayKey] = Append(@, habitId)]
      ELSE [c1 EXCEPT ![todayKey] = Without(@, habitId)]

\* A toggle whose removal keeps the id.
ToggledNeverRemove(completions, todayKey, habitId, completed) ==
  LET c1 == IF todayKey \in DOMAIN completions THEN completions
            ELSE completions @@ (todayKey :> <<>>)
  IN  IF completed /\ habitId \notin Range(c1[todayKey])
      THEN [c1 EXCEPT ![todayKey] = Append(@, habitId)]
      ELSE c1

\* The Completion Index toggleHabitCompletion writes (lines 114-129).
ToggledCompletions(completions, todayKey, habitId, completed) ==
  LET c1 == IF todayKey \in DOMAIN completions THEN completions
            ELSE completions @@ (todayKey :> <<>>)
  IN  IF completed /\ habitId \notin Range(c1[todayKey])
      THEN [c1 EXCEPT ![todayKey] = Append(@, habitId)]
      ELSE IF ~completed
           THEN [c1 EXCEPT ![todayKey] = Without(@, habitId)]
           ELSE c1

toggleHabitCompletion(habitId, completed) ==
  LET c2 == ToggledCompletions(LoadCompletions, getTodayKey, habitId, completed)
  IN  IF IsMalformed(COMPLETIONS_KEY)
      THEN /\ lastOp' = Raise("toggle", habitId, completed)
           /\ UNCHANGED <<storedHabits, storedCompletions, today, localDay,
                          tz, ticks, lastToggle, malformed>>
      ELSE IF IsMalformed(STORAGE_KEY)
      THEN /\ storedCompletions' = {c2}
           /\ lastOp' = Raise("toggle", habitId, completed)
           /\ UNCHANGED <<storedHabits, today, localDay, tz, ticks, lastToggle,
                          malformed>>
      ELSE /\ storedCompletions' = {c2}
           /\ storedHabits' = updateStreak(storedHabits, c2, habitId)
           /\ lastOp' = Op("toggle", habitId, completed,
                           Includes(LoadCompletions, getTodayKey, habitId))
           /\ lastToggle' =
                IF habitId \in HabitIds(LoadHabits)
                THEN [lastToggle EXCEPT ![habitId] = {today}]
                ELSE lastToggle
           /\ UNCHANGED <<today, localDay, tz, ticks, malformed>>

\* A call of getHabitStats(habitId): it reads both entries and writes none.
GetHabitStats(habitId) ==
  /\ lastOp' = IF IsMalformed(STORAGE_KEY) \/ IsMalformed(COMPLETIONS_KEY)
               THEN Raise("stats", habitId, FALSE)
               ELSE Op("stats", habitId, FALSE, FALSE)
  /\ UNCHANGED <<storedHabits, storedCompletions, today, localDay, tz, ticks,
                 lastToggle, malformed>>

\* A call of getAllHabits(): it reads both entries and writes none.
GetAllHabits ==
  /\ lastOp' = IF IsMalformed(STORAGE_KEY) \/ IsMalformed(COMPLETIONS_KEY)
               THEN Raise("list", 0, FALSE)
               ELSE Op("list", 0, FALSE, FALSE)
  /\ UNCHANGED <<storedHabits, storedCompletions, today, localDay, tz, ticks,
                 lastToggle, malformed>>

\* The local calendar days an instant of the given UTC day can fall on.
LocalDays(utcDay) == {utcDay, utcDay + tz}

\* The clock moves on: to the next local day within the same UTC day
\* (jump 0), or by some days.
AdvanceClock(jump, local, limit) ==
  /\ local >= localDay
  /\ jump > 0 \/ local > localDay
  /\ jump > 0 => ticks < limit
  /\ today' = today + jump
  /\ localDay' = local
  /\ ticks' = IF jump > 0 THEN ticks + 1 ELSE ticks
  /\ lastOp' = Op("clock", 0, FALSE, FALSE)
  /\ UNCHANGED <<storedHabits, storedCompletions, tz, lastToggle, malformed>>

\* The script's variables as declared (part_001 lines 14-26): pageHabits
\* is its list habits, editingHabit holds a habit of the list or nothing
\* (null, undefined).  lastKey is the
\* last event handled and threw whether its handler ended in a TypeError.
InitScript ==
  /\ pageHabits = <<>>
  /\ selectedIndex = 0
  /\ isAddingHabit = FALSE
  /\ isEditingHabit = FALSE
  /\ showingDetails = FALSE
  /\ newHabitName = ""
  /\ newHabitFrequency = "daily"
  /\ newHabitTarget = 1
  /\ editingHabit = {}
  /\ lastKey = ""
  /\ threw = FALSE

\* One call of the engine with ids drawn from ids, or the clock moving on
\* by one of jumps, at most limit times.
Step(ids, jumps, limit) ==
  \/ initializeDatabase /\ UNCHANGED ui
  \/ \E name \in Names, frequency \in Frequencies, target \in Targets :
       /\ IsMalformed(STORAGE_KEY) \/ NewId(LoadHabits) \in ids
       /\ addHabit(name, frequency, target)
       /\ UNCHANGED ui
  \/ \E id \in ids : deleteHabit(id) /\ UNCHANGED ui
  \/ \E id \in ids, updates \in Updates :
       updateHabit(id, updates) /\ UNCHANGED ui
  \/ \E id \in ids, completed \in BOOLEAN :
       toggleHabitCompletion(id, completed) /\ UNCHANGED ui
  \/ \E id \in ids : GetHabitStats(id) /\ UNCHANGED ui
  \/ \E jump \in jumps \cup {0} :
       \E local \in LocalDays(today + jump) :
         AdvanceClock(jump, local, limit) /\ UNCHANGED ui

\* Every id, over two consecutive days.
Init ==
  /\ InitStore
  /\ tz \in {-1, 0}
  /\ localDay \in LocalDays(today)
  /\ InitScript

Next == Step(Ids, {1}, MaxDays)

Spec == Init /\ [][Next]_vars

\* One habit over the turn of the year.
NextCalendar == Step({1}, Jumps, MaxTicks)

SpecCalendar == Init /\ [][NextCalendar]_vars

\* One habit over two days, in a browser whose storage holds, when the page
\* is opened, nothing or content that is not JSON under either key.
InitStorage ==
  /\ storedHabits = {}
  /\ storedCompletions = {}
  /\ malformed \in SUBSET {STORAGE_KEY, COMPLETIONS_KEY}
  /\ today = DaysFromCivil(2024, 12, 25)
  /\ ticks = 0
  /\ lastOp = Op("init", 0, FALSE, FALSE)
  /\ lastToggle = [i \in Ids |-> {}]
  /\ tz \in {-1, 0}
  /\ localDay \in LocalDays(today)
  /\ InitScript

NextStorage == Step({1}, {1}, MaxDays) \/ (GetAllHabits /\ UNCHANGED ui)

SpecStorage == InitStorage /\ [][NextStorage]_vars

\* The four calls that write, with ids one beyond those that are deleted,
\* updated and toggled, on one day.
NextIds ==
  \/ \E name \in Names, frequency \in Frequencies, target \in Targets :
       /\ NewId(LoadHabits) <= MaxId + 1
       /\ addHabit(name, frequency, target)
       /\ UNCHANGED ui
  \/ \E id \in Ids : deleteHabit(id) /\ UNCHANGED ui
  \/ \E id \in Ids, updates \in Updates :
       updateHabit(id, updates) /\ UNCHANGED ui
  \/ \E id \in Ids, completed \in BOOLEAN :
       toggleHabitCompletion(id, completed) /\ UNCHANGED ui

SpecIds == Init /\ [][NextIds]_vars

\* addHabit and deleteHabit alone.
NextAddDelete ==
  \/ \E name \in Names, frequency \in Frequencies, target \in Targets :
       /\ NewId(LoadHabits) <= MaxId + 1
       /\ addHabit(name, frequency, target)
       /\ UNCHANGED ui
  \/ \E id \in Ids : deleteHabit(id) /\ UNCHANGED ui

SpecAddDelete == Init /\ [][NextAddDelete]_vars

\* The calls that write and the clock, when toggleHabitCompletion is only
\* called with the id of a habit of the collection, as the list view does:
\* one id, so that every add after a delete returns the id again.
NextExisting ==
  \/ \E name \in Names, frequency \in Frequencies, target \in Targets :
       /\ NewId(LoadHabits) = 1
       /\ addHabit(name, frequency, target)
       /\ UNCHANGED ui
  \/ deleteHabit(1) /\ UNCHANGED ui
  \/ \E updates \in Updates : updateHabit(1, updates) /\ UNCHANGED ui
  \/ \E completed \in BOOLEAN :
       /\ 1 \in HabitIds(LoadHabits)
       /\ toggleHabitCompletion(1, completed)
       /\ UNCHANGED ui
  \/ \E jump \in Jumps \cup {0} :
       \E local \in LocalDays(today + jump) :
         AdvanceClock(jump, local, MaxTicks) /\ UNCHANGED ui

SpecExisting == Init /\ [][NextExisting]_vars

\* updateHabit alone, on stored records with every field addHabit writes
\* (reminder_time and notes are undefined there and JSON.stringify leaves
\* them out).  Habit 1 was created and completed the day before, habit 2 is
\* of today; the store holds both, habit 2 alone, or nothing.
Stored(id, frequency, target, streak, created) ==
  [id |-> id, name |-> "Exercise", frequency |-> frequency, target |-> target,
   streak |-> streak, category |-> "general", created_at |-> created]

\* One field of the six updateHabit is called with, or all six.
FullUpdates ==
  UNION {[name : {"Read"}], [frequency : Frequencies], [target : Targets],
         [category : {"health"}], [reminder_time : {"08:00"}],
         [notes : {"before breakfast"}],
         [name : {"Read"}, frequency : {"weekly"}, target : Targets,
          category : {"health"}, reminder_time : {"08:00"},
          notes : {"before breakfast"}]}

InitUpdate ==
  /\ InitScript
  /\ today = DaysFromCivil(2024, 12, 25)
  /\ localDay = today /\ tz = 0 /\ ticks = 0
  /\ malformed = {}
  /\ lastOp = Op("init", 0, FALSE, FALSE)
  /\ \E f1 \in Frequencies, f2 \in Frequencies, t1 \in Targets, t2 \in Targets :
       LET h1 == Stored(1, f1, t1, 1, today - 1)
           h2 == Stored(2, f2, t2, 0, today)
       IN  \/ /\ storedHabits = {<<h1, h2>>}
               /\ storedCompletions = {((today - 1) :> <<1>>)}
               /\ lastToggle = [i \in Ids |-> IF i = 1 THEN {today - 1} ELSE {}]
           \/ /\ storedHabits = {<<h2>>}
               /\ storedCompletions = {((today - 1) :> <<>>)}
               /\ lastToggle = [i \in Ids |-> {}]
           \/ /\ storedHabits = {}
               /\ storedCompletions = {}
               /\ lastToggle = [i \in Ids |-> {}]

NextUpdate ==
  \E id \in Ids, updates \in FullUpdates :
    updateHabit(id, updates) /\ UNCHANGED ui

SpecUpdate == InitUpdate /\ [][NextUpdate]_vars

\* ------------------------------------------------------------------- page
\* The text typed into the name field, and what String.trim makes of it.
Typed == {"  ", " Read "}

\* A name field cleared of nothing (trim left out).
trimNothing(text) == text

trim(text) ==
  CASE text = "  "     -> ""
    [] text = " Read " -> "Read"
    [] OTHER           -> text

Keys == {"j", "ArrowDown", "k", "ArrowUp", " ", "n", "d", "e", "Enter",
         "Escape"}

Min(a, b) == IF a < b THEN a ELSE b
Max(a, b) == IF a > b THEN a ELSE b

\* habits[index] of the script, whose indexes start at 0: the element, or
\* nothing (undefined) beyond the list.
At(index) ==
  IF index + 1 \in DOMAIN pageHabits THEN {pageHabits[index + 1]} ELSE {}

formOpen == isAddingHabit \/ isEditingHabit

form == <<newHabitName, newHabitFrequency, newHabitTarget>>

\* A handler that reads a property of undefined: the statements before the
\* read are done, none after it.
TypeError ==
  /\ threw' = TRUE
  /\ UNCHANGED <<engine, pageHabits, selectedIndex, isAddingHabit,
                 isEditingHabit, showingDetails, form>>

loadHabits == pageHabits' = getAllHabits'

cancelEdit ==
  /\ isAddingHabit' = FALSE
  /\ isEditingHabit' = FALSE
  /\ editingHabit' = {}
  /\ newHabitName' = ""
  /\ newHabitFrequency' = "daily"
  /\ newHabitTarget' = 1

toggleHabit(index) ==
  LET habit == CHOOSE h \in At(index) : TRUE
  IN  IF At(index) = {}
      THEN TypeError /\ UNCHANGED editingHabit
      ELSE /\ toggleHabitCompletion(habit.habit.id, ~habit.completed)
           /\ loadHabits
           /\ threw' = FALSE
           /\ UNCHANGED <<selectedIndex, isAddingHabit, isEditingHabit,
                          showingDetails, form, editingHabit>>

\* addHabit() of the script; category and notes, free text that no rule of
\* the engine reads, are left out as they are in the stored record.
pageAddHabit ==
  IF trim(newHabitName) # ""
  THEN /\ addHabit(trim(newHabitName), newHabitFrequency, newHabitTarget)
       /\ cancelEdit
       /\ loadHabits
       /\ threw' = FALSE
       /\ UNCHANGED <<selectedIndex, showingDetails>>
  ELSE /\ threw' = FALSE
       /\ UNCHANGED <<engine, pageHabits, selectedIndex, isAddingHabit,
                      isEditingHabit, showingDetails, form, editingHabit>>

startEditing(habit) ==
  LET h == CHOOSE x \in habit : TRUE
  IN  IF habit = {}
      THEN editingHabit' = {} /\ TypeError
      ELSE /\ editingHabit' = habit
           /\ newHabitName' = h.habit.name
           /\ newHabitFrequency' = h.habit.frequency
           /\ newHabitTarget' = h.habit.target
           /\ isEditingHabit' = TRUE
           /\ threw' = FALSE
           /\ UNCHANGED <<engine, pageHabits, selectedIndex, isAddingHabit,
                          showingDetails>>

saveHabitEdit ==
  LET h == CHOOSE x \in editingHabit : TRUE
  IN  IF editingHabit # {} /\ trim(newHabitName) # ""
      THEN /\ updateHabit(h.habit.id,
                          [name |-> trim(newHabitName),
                           frequency |-> newHabitFrequency,
                           target |-> newHabitTarget])
           /\ cancelEdit
           /\ loadHabits
           /\ threw' = FALSE
           /\ UNCHANGED <<selectedIndex, showingDetails>>
      ELSE /\ threw' = FALSE
           /\ UNCHANGED <<engine, pageHabits, selectedIndex, isAddingHabit,
                          isEditingHabit, showingDetails, form, editingHabit>>

\* deleteHabit(index) of the script.
pageDeleteHabit(index) ==
  LET habit == CHOOSE h \in At(index) : TRUE
  IN  IF At(index) = {}
      THEN TypeError /\ UNCHANGED editingHabit
      ELSE /\ deleteHabit(habit.habit.id)
           /\ loadHabits
           /\ selectedIndex' =
                IF selectedIndex >= Len(getAllHabits')
                THEN Max(0, Len(getAllHabits') - 1)
                ELSE selectedIndex
           /\ threw' = FALSE
           /\ UNCHANGED <<isAddingHabit, isEditingHabit, showingDetails, form,
                          editingHabit>>

showHabitDetails(habit) ==
  /\ editingHabit' = habit
  /\ showingDetails' = TRUE
  /\ threw' = FALSE
  /\ UNCHANGED <<engine, pageHabits, selectedIndex, isAddingHabit,
                 isEditingHabit, form>>

\* The assignment to selectedIndex of the cases j and k.
select(index) ==
  /\ selectedIndex' = index
  /\ threw' = FALSE
  /\ UNCHANGED <<engine, pageHabits, isAddingHabit, isEditingHabit,
                 showingDetails, form, editingHabit>>

handleKeydown(key) ==
  /\ lastKey' = key
  /\ IF formOpen
     THEN CASE key = "Enter" ->
                 IF isAddingHabit THEN pageAddHabit ELSE saveHabitEdit
            [] key = "Escape" ->
                 /\ cancelEdit
                 /\ threw' = FALSE
                 /\ UNCHANGED <<engine, pageHabits, selectedIndex,
                                showingDetails>>
            [] OTHER ->
                 /\ threw' = FALSE
                 /\ UNCHANGED <<engine, pageHabits, selectedIndex,
                                isAddingHabit, isEditingHabit, showingDetails,
                                form, editingHabit>>
     ELSE IF showingDetails /\ key = "Escape"
     THEN /\ showingDetails' = FALSE
          /\ threw' = FALSE
          /\ UNCHANGED <<engine, pageHabits, selectedIndex, isAddingHabit,
                         isEditingHabit, form, editingHabit>>
     ELSE CASE key \in {"j", "ArrowDown"} ->
                 select(Min(selectedIndex + 1, Len(pageHabits) - 1))
            [] key \in {"k", "ArrowUp"} ->
                 select(Max(selectedIndex - 1, 0))
            [] key = " " -> toggleHabit(selectedIndex)
            [] key = "n" ->
                 /\ isAddingHabit' = TRUE
                 /\ threw' = FALSE
                 /\ UNCHANGED <<engine, pageHabits, selectedIndex,
                                isEditingHabit, showingDetails, form,
                                editingHabit>>
            [] key = "d" -> pageDeleteHabit(selectedIndex)
            [] key = "e" -> startEditing(At(selectedIndex))
            [] key = "Enter" -> showHabitDetails(At(selectedIndex))
            [] OTHER ->
                 /\ threw' = FALSE
                 /\ UNCHANGED <<engine, pageHabits, selectedIndex,
                                isAddingHabit, isEditingHabit, showingDetails,
                                form, editingHabit>>

\* Text typed into the name field (bind:value); frequency and target are
\* left as the form shows them.
InputName(text) ==
  /\ formOpen
  /\ newHabitName' = text
  /\ lastKey' = "input" /\ threw' = FALSE
  /\ UNCHANGED <<engine, pageHabits, selectedIndex, isAddingHabit,
                 isEditingHabit, showingDetails, newHabitFrequency,
                 newHabitTarget, editingHabit>>

\* A click on the checkbox of row index (on:change).
ClickCheckbox(index) ==
  /\ At(index) # {}
  /\ lastKey' = "checkbox"
  /\ toggleHabit(index)

\* A click on Edit in the details of a habit (on:click).
ClickEdit ==
  /\ ~formOpen /\ showingDetails /\ editingHabit # {}
  /\ lastKey' = "edit"
  /\ startEditing(editingHabit)

\* onMount: the page is opened (again) on the storage as it is.
onMount ==
  /\ initializeDatabase
  /\ loadHabits
  /\ selectedIndex' = 0
  /\ showingDetails' = FALSE
  /\ cancelEdit
  /\ lastKey' = "" /\ threw' = FALSE

\* The page just opened in a browser that has never stored a habit.
InitPage ==
  /\ storedHabits = {<<>>}
  /\ storedCompletions = {<<>>}
  /\ malformed = {}
  /\ today = DaysFromCivil(2024, 12, 25)
  /\ ticks = 0
  /\ lastOp = Op("initialize", 0, FALSE, FALSE)
  /\ lastToggle = [i \in Ids |-> {}]
  /\ tz = 0
  /\ localDay = today
  /\ InitScript

\* The events of the page, with at most MaxId habits ever added, over two
\* consecutive days.
NextPage ==
  \/ \E key \in Keys :
       /\ (isAddingHabit /\ key = "Enter" /\ trim(newHabitName) # "")
            => NewId(LoadHabits) \in Ids
       /\ handleKeydown(key)
  \/ \E text \in Typed : InputName(text)
  \/ \E index \in 0..(MaxId - 1) : ClickCheckbox(index)
  \/ ClickEdit
  \/ onMount
  \/ \E jump \in {0, 1} :
       \E local \in LocalDays(today + jump) :
         AdvanceClock(jump, local, MaxDays) /\ UNCHANGED ui

SpecPage == InitPage /\ [][NextPage]_vars

\* ------------------------------------------------------------------ claims
Exists(id) == id \in HabitIds(LoadHabits)
HabitOf(id) == LoadHabits[FindIndex(LoadHabits, id)]
Has(id, day) == Includes(LoadCompletions, day, id)
Toggled(id) == lastOp.op = "toggle" /\ lastOp.id = id /\ Exists(id)

\* Periods of the calendar, read off the day keys: the Monday-to-Sunday
\* week and the month of a year, each numbered consecutively.
IsoWeek(day) == (day + 3) \div 7
MonthOfYear(day) == CivilFromDays(day).year * 12 + CivilFromDays(day).month
WeekHas(id, week) ==
  \E day \in DOMAIN LoadCompletions : IsoWeek(day) = week /\ Has(id, day)
MonthHas(id, month) ==
  \E day \in DOMAIN LoadCompletions : MonthOfYear(day) = month /\ Has(id, day)

\* n is the number of consecutive periods with a completion of id, counted
\* back from the period of day.
DailyStreakIs(id, day, n) ==
  /\ \A i \in 0..(n - 1) : Has(id, day - i)
  /\ ~Has(id, day - n)
WeeklyStreakIs(id, day, n) ==
  /\ \A i \in 0..(n - 1) : WeekHas(id, IsoWeek(day) - i)
  /\ ~WeekHas(id, IsoWeek(day) - n)
MonthlyStreakIs(id, day, n) ==
  /\ \A i \in 0..(n - 1) : MonthHas(id, MonthOfYear(day) - i)
  /\ ~MonthHas(id, MonthOfYear(day) - n)
StreakIs(frequency, id, day, n) ==
  CASE frequency = "daily"   -> DailyStreakIs(id, day, n)
    [] frequency = "weekly"  -> WeeklyStreakIs(id, day, n)
    [] frequency = "monthly" -> MonthlyStreakIs(id, day, n)

\* "Today" of a claim about weeks or months: the day of today's key, or the
\* local calendar day where the two differ.
Todays == {today, localDay}

\* C1: every id in a bucket of the Completion Index is the id of a habit of
\* the Habit collection.
C1_IndexReferencesHabits ==
  \A day \in DOMAIN LoadCompletions :
    Range(LoadCompletions[day]) \subseteq HabitIds(LoadHabits)

\* C2: after deleteHabit(id) no bucket, today's or an earlier day's, holds
\* id and getAllHabits() lists no habit with that id.
C2_DeleteCascade ==
  lastOp.op = "delete" =>
    /\ ~InAnyBucket(LoadCompletions, lastOp.id)
    /\ \A i \in DOMAIN getAllHabits : getAllHabits[i].habit.id # lastOp.id

\* A delete of a habit that was in a bucket, with the bucket of an earlier
\* day still there.
C2_Witness ==
  /\ lastOp.op = "delete"
  /\ lastOp.was
  /\ \E day \in DOMAIN LoadCompletions : day < today

\* C3: the streak stored for a habit that has been toggled is the streak
\* its current frequency yields on the Completion Index at the day of its
\* last toggle.
C3_StreakIsCacheOfIndex ==
  \A id \in Ids :
    (Exists(id) /\ lastToggle[id] # {}) =>
      \A day \in lastToggle[id] :
        StreakIs(HabitOf(id).frequency, id, day, HabitOf(id).streak)

C5_WeeklyStreak ==
  \A id \in Ids :
    (Toggled(id) /\ HabitOf(id).frequency = "weekly") =>
      \E day \in Todays : WeeklyStreakIs(id, day, HabitOf(id).streak)

\* C6: right after a toggle of a monthly habit its streak is the number of
\* consecutive months, back from the month of today and from January into
\* December, that have a completion of it.
C6_MonthlyStreak ==
  \A id \in Ids :
    (Toggled(id) /\ HabitOf(id).frequency = "monthly") =>
      \E day \in Todays : MonthlyStreakIs(id, day, HabitOf(id).streak)

\* C7: getHabitStats(id).completed is 1 exactly when the current period of
\* the habit (today, the ISO week of today, the month of today) has a
\* completion of it.
PeriodHas(frequency, id, day) ==
  CASE frequency = "daily"   -> Has(id, today)
    [] frequency = "weekly"  -> WeekHas(id, IsoWeek(day))
    [] frequency = "monthly" -> MonthHas(id, MonthOfYear(day))
C7_CompletedIsCurrentPeriod ==
  \A id \in Ids :
    Exists(id) =>
      \E day \in Todays :
        getHabitStats(id).completed =
          IF PeriodHas(HabitOf(id).frequency, id, day) THEN 1 ELSE 0

\* C8: a first habit gets id 1 and streak 0; a daily habit with no earlier
\* completion has stats {1, 1, target, 100} once toggled on and
\* {0, 0, target, 0} once toggled off, and toggling it on and off again
\* gives back the stats it had.
Stats(streak, completed, target, rate) ==
  [streak |-> streak, completed |-> completed, total_required |-> target,
   completion_rate |-> rate]
StatsAfterOnOff(id) ==
  LET c1 == ToggledCompletions(LoadCompletions, getTodayKey, id, TRUE)
      h1 == updateStreak(storedHabits, c1, id)
      c2 == ToggledCompletions(c1, getTodayKey, id, FALSE)
      h2 == updateStreak(h1, c2, id)
  IN  StatsOf(Value(h2, <<>>), c2, id)
NoEarlierCompletion(id) == \A day \in DOMAIN LoadCompletions \ {today} : ~Has(id, day)
C9_ToggleTrueTwice ==
  [][\A id \in Ids :
       (/\ Toggled(id) /\ lastOp.completed
        /\ lastOp'.op = "toggle" /\ lastOp'.id = id /\ lastOp'.completed)
       => (storedHabits' = storedHabits /\ storedCompletions' = storedCompletions)
    ]_vars

\* The state after the second call: the id was already in today's bucket.
C9_Witness ==
  \E id \in Ids :
    /\ Toggled(id) /\ lastOp.completed /\ lastOp.was
    /\ HabitOf(id).streak >= 1

\* C10: toggleHabitCompletion(id, false) for an id that is not in today's
\* bucket leaves the Completion Index as it was and creates no bucket.
C10_ToggleFalseAbsentIsNoOp ==
  [][(/\ lastOp'.op = "toggle" /\ ~lastOp'.completed
      /\ ~Includes(LoadCompletions, getTodayKey, lastOp'.id))
     => LoadCompletions' = LoadCompletions
    ]_vars

\* C11: the id addHabit returns, which is the id of the habit it appends,
\* is greater than the id of every habit in the collection at the call and
\* is 1 when the collection is empty at the call.
C11_NewIdAboveAll ==
  [][(lastOp'.op = "add" /\ ~lastOp'.raised) =>
       /\ \A i \in DOMAIN LoadHabits : lastOp'.id > LoadHabits[i].id
       /\ LoadHabits = <<>> => lastOp'.id = 1
       /\ LoadHabits'[Len(LoadHabits')].id = lastOp'.id
    ]_vars

\* An add after the habit with the smallest id was deleted: the collection
\* held one habit, with id 2, and the new habit has id 3.
C11_Witness ==
  /\ lastOp.op = "add" /\ lastOp.id = 3
  /\ Len(LoadHabits) = 2 /\ LoadHabits[1].id = 2

\* C12: no two habits of the Habit collection have the same id.
C12_UniqueIds ==
  \A i, j \in DOMAIN LoadHabits :
    LoadHabits[i].id = LoadHabits[j].id => i = j

\* Habits 2 and 3 after habit 1 was deleted, then updated or toggled.
C12_Witness ==
  /\ HabitIds(LoadHabits) = {2, 3} /\ Len(LoadHabits) = 2
  /\ lastOp.op \in {"update", "toggle"}

\* C13: the walk of updateStreak run by a toggle ends, and it ends at the
\* first period without a completion: the streak it leaves counts periods
\* that each hold a completion day of their own, the period after them
\* holds none, and a habit that is in no bucket is left with streak 0, the
\* current period being the only one examined.  Every turn of the loop
\* examines one period and either counts it or ends the walk.
CompletionDays(id) == {day \in DOMAIN LoadCompletions : Has(id, day)}
PeriodsExamined(id) == HabitOf(id).streak + 1
C13_WalkEndsAtFirstGap ==
  \A id \in Ids :
    Toggled(id) =>
      /\ PeriodsExamined(id) <= Cardinality(CompletionDays(id)) + 1
      /\ CompletionDays(id) = {} => PeriodsExamined(id) = 1
      /\ \E day \in Todays :
           StreakIs(HabitOf(id).frequency, id, day, HabitOf(id).streak)

\* C14: toggleHabitCompletion(id, completed) with an id no habit has
\* changes neither the Habit collection nor the Completion Index, whether
\* completed is true or false.
C14_ToggleUnknownIsNoOp ==
  [][(lastOp'.op = "toggle" /\ lastOp'.id \notin HabitIds(LoadHabits)) =>
       (LoadHabits' = LoadHabits /\ LoadCompletions' = LoadCompletions)
    ]_vars

\* C15: deleteHabit(id) with an id no habit has leaves the Habit collection
\* and every bucket of the Completion Index as they were.
C15_DeleteUnknownIsNoOp ==
  [][(lastOp'.op = "delete" /\ lastOp'.id \notin HabitIds(LoadHabits)) =>
       (LoadHabits' = LoadHabits /\ LoadCompletions' = LoadCompletions)
    ]_vars

\* C16: updateHabit(id, updates) sets the fields of updates on the habit
\* with that id and changes nothing else: its other fields, id and
\* created_at among them, its position, every other habit and the
\* Completion Index are as before; without such a habit both storage
\* entries are as before.
UpdateFrame(id, updates) ==
  LET old   == LoadHabits
      new   == LoadHabits'
      index == FindIndex(old, id)
  IN  /\ storedCompletions' = storedCompletions
      /\ index = 0 => storedHabits' = storedHabits
      /\ index # 0 =>
           /\ DOMAIN new = DOMAIN old
           /\ \A i \in DOMAIN old \ {index} : new[i] = old[i]
           /\ DOMAIN new[index] = DOMAIN old[index] \cup DOMAIN updates
           /\ \A f \in DOMAIN updates : new[index][f] = updates[f]
           /\ \A f \in DOMAIN old[index] \ DOMAIN updates :
                new[index][f] = old[index][f]
           /\ new[index].id = id
           /\ new[index].created_at = old[index].created_at
C16_UpdateFrame ==
  [][\A updates \in FullUpdates :
       (lastOp'.op = "update" /\ updateHabit(lastOp'.id, updates))
         => UpdateFrame(lastOp'.id, updates)
    ]_vars

\* Habit 1 of two, of the day before, renamed and given its notes today.
C16_Witness ==
  /\ lastOp.op = "update" /\ lastOp.id = 1
  /\ Len(LoadHabits) = 2
  /\ LoadHabits[1].name = "Read" /\ LoadHabits[1].category = "general"
  /\ "notes" \in DOMAIN LoadHabits[1]
  /\ LoadHabits[1].created_at = today - 1 /\ LoadHabits[1].streak = 1
  /\ LoadHabits[2].name = "Exercise"

\* C17: with a storage entry absent or not JSON, no call of getAllHabits,
\* addHabit, deleteHabit, updateHabit, toggleHabitCompletion or
\* getHabitStats raises a failure.
EngineCalls == {"list", "add", "delete", "update", "toggle", "stats"}
C17_BadStorageIsEmpty == lastOp.op \in EngineCalls => ~lastOp.raised

\* C18: for a habit that exists getHabitStats returns its target as
\* total_required, completed * 100 as completion_rate, with completed 0 or
\* 1 whatever the target, and the streak stored on the habit, which it does
\* not compute anew.
C18_StatsFields ==
  \A id \in Ids :
    Exists(id) =>
      LET stats == getHabitStats(id)
      IN  /\ stats.total_required = HabitOf(id).target
          /\ stats.completed \in {0, 1}
          /\ stats.completion_rate = stats.completed * 100
          /\ stats.streak = HabitOf(id).streak

\* Stats of a completed habit of target 2 whose stored streak is not the
\* streak a recomputation would give now.
C18_Witness ==
  /\ lastOp.op = "stats" /\ Exists(lastOp.id)
  /\ HabitOf(lastOp.id).target = 2
  /\ getHabitStats(lastOp.id).completed = 1
  /\ getHabitStats(lastOp.id).completion_rate = 100
  /\ lastToggle[lastOp.id] # {}
  /\ getHabitStats(lastOp.id).streak >= 1
  /\ getHabitStats(lastOp.id).streak #
       ComputeStreak(LoadCompletions, lastOp.id, HabitOf(lastOp.id).frequency)

\* C19: getHabitStats(id) for an id no habit has returns streak 0,
\* completed 0 and completion_rate 0, raises nothing and writes nothing,
\* whatever the Completion Index holds for id.
C19_StatsUnknownIsZero ==
  [][(lastOp'.op = "stats" /\ lastOp'.id \notin HabitIds(LoadHabits)) =>
       /\ getHabitStats(lastOp'.id).streak = 0
       /\ getHabitStats(lastOp'.id).completed = 0
       /\ getHabitStats(lastOp'.id).completion_rate = 0
       /\ ~lastOp'.raised
       /\ storedHabits' = storedHabits /\ storedCompletions' = storedCompletions
    ]_vars

\* Stats of an id that no habit has and that is in today's bucket.
C19_Witness ==
  /\ lastOp.op = "stats" /\ ~Exists(lastOp.id)
  /\ Has(lastOp.id, today)
  /\ getHabitStats(lastOp.id) = Stats(0, 0, 1, 0)

\* C20: initializeDatabase writes the empty list and the empty map under
\* the keys that are absent and leaves an entry that is there as it is, so
\* that both entries are there afterwards and a second call in a row finds
\* nothing to write.
C20_InitializeKeepsData ==
  [][lastOp'.op = "initialize" =>
       /\ storedHabits' = IF storedHabits = {} THEN {<<>>} ELSE storedHabits
       /\ storedCompletions' =
            IF storedCompletions = {} THEN {<<>>} ELSE storedCompletions
       /\ storedHabits' # {} /\ storedCompletions' # {}
       /\ lastOp.op = "initialize" =>
            /\ storedHabits' = storedHabits
            /\ storedCompletions' = storedCompletions
    ]_vars

\* An initialization of a store that held a habit and a completion of it.
C20_Witness ==
  /\ lastOp.op = "initialize"
  /\ Len(LoadHabits) = 1 /\ InAnyBucket(LoadCompletions, LoadHabits[1].id)

\* C21: addHabit appends one habit, with streak 0 and the id it returns,
\* at the end of the collection; the habits stored before, their streaks
\* among their fields, and the Completion Index are as before.
C21_AddFrame ==
  [][(lastOp'.op = "add" /\ ~lastOp'.raised) =>
       /\ Len(LoadHabits') = Len(LoadHabits) + 1
       /\ \A i \in DOMAIN LoadHabits : LoadHabits'[i] = LoadHabits[i]
       /\ LoadHabits'[Len(LoadHabits')].streak = 0
       /\ LoadHabits'[Len(LoadHabits')].id = lastOp'.id
       /\ storedCompletions' = storedCompletions
    ]_vars

\* An add behind a habit that has a streak and is in today's bucket.
C21_Witness ==
  /\ lastOp.op = "add" /\ Len(LoadHabits) = 2
  /\ LoadHabits[2].id = lastOp.id /\ LoadHabits[2].streak = 0
  /\ LoadHabits[1].streak = 1 /\ Has(LoadHabits[1].id, today)

\* C22: no bucket of the Completion Index holds the same id twice.
C22_NoDuplicateInBucket ==
  \A day \in DOMAIN LoadCompletions :
    \A i, j \in DOMAIN LoadCompletions[day] :
      LoadCompletions[day][i] = LoadCompletions[day][j] => i = j

\* A toggle to true of a habit that was in today's bucket already and is
\* in the bucket of an earlier day as well.
C22_Witness ==
  \E id \in Ids :
    /\ Toggled(id) /\ lastOp.completed /\ lastOp.was
    /\ Has(id, today)
    /\ \E day \in DOMAIN LoadCompletions : day < today /\ Has(id, day)

\* C27: with toggles of existing habits only, the habit addHabit has just
\* returned is in no bucket and getAllHabits reports it not completed,
\* also when a habit deleted before had the same id.
C27_NewHabitIsClean ==
  (lastOp.op = "add" /\ ~lastOp.raised) =>
    /\ ~InAnyBucket(LoadCompletions, lastOp.id)
    /\ \A i \in DOMAIN getAllHabits :
         getAllHabits[i].habit.id = lastOp.id => ~getAllHabits[i].completed

\* An add that returns id 1 again: the index has the bucket of an earlier
\* day, made by a toggle of the habit that had the id then.
C27_Witness ==
  /\ lastOp.op = "add" /\ lastOp.id = 1
  /\ \E i \in DOMAIN getAllHabits : getAllHabits[i].habit.id = 1
  /\ today \in DOMAIN LoadCompletions
  /\ \E day \in DOMAIN LoadCompletions : day < today

\* C28: toggleHabitCompletion(id, completed) changes at most whether id is
\* in today's bucket and the cached streak of the habit with that id: the
\* buckets of other days, the other ids of today's bucket and every other
\* habit are as before, and so are the other fields of the habit itself.
C28_ToggleFrame ==
  [][lastOp'.op = "toggle" =>
       /\ DOMAIN LoadCompletions' \subseteq DOMAIN LoadCompletions \cup {today}
       /\ \A day \in DOMAIN LoadCompletions \ {today} :
            /\ day \in DOMAIN LoadCompletions'
            /\ LoadCompletions'[day] = LoadCompletions[day]
       /\ \A other \in Ids \ {lastOp'.id} :
            Includes(LoadCompletions', today, other)
              <=> Includes(LoadCompletions, today, other)
       /\ DOMAIN LoadHabits' = DOMAIN LoadHabits
       /\ \A i \in DOMAIN LoadHabits :
            IF LoadHabits[i].id = lastOp'.id
            THEN [LoadHabits'[i] EXCEPT !.streak = LoadHabits[i].streak]
                   = LoadHabits[i]
            ELSE LoadHabits'[i] = LoadHabits[i]
    ]_vars

\* A toggle of habit 1 that changes its streak, on a day when habit 2 has
\* a streak from the day before and shares the bucket of the day before
\* with habit 1.
C28_Witness ==
  /\ Toggled(1) /\ Exists(2) /\ lastToggle[1] = {today}
  /\ HabitOf(1).streak = 2
  /\ HabitOf(2).streak = 1 /\ ~Has(2, today)
  /\ Has(1, today - 1) /\ Has(2, today - 1)

\* C29, as stated: in every state the result of getHabitStats for a daily
\* habit has completed = 1 exactly when its streak is at least 1.
C29_StatsSelfConsistent ==
  \A id \in Ids :
    (Exists(id) /\ HabitOf(id).frequency = "daily") =>
      (getHabitStats(id).completed = 1 <=> getHabitStats(id).streak >= 1)

\* C29, amended: right after toggleHabitCompletion on a daily habit the
\* result of getHabitStats has completed = 1 exactly when its streak is at
\* least 1.
C29_StatsConsistentAfterToggle ==
  \A id \in Ids :
    (Toggled(id) /\ HabitOf(id).frequency = "daily") =>
      (getHabitStats(id).completed = 1 <=> getHabitStats(id).streak >= 1)

\* A toggle to false of a daily habit completed the day before: neither
\* completed nor on a streak.
C29_Witness ==
  \E id \in Ids :
    /\ Toggled(id) /\ ~lastOp.completed /\ lastOp.was
    /\ HabitOf(id).frequency = "daily"
    /\ Has(id, today - 1) /\ ~Has(id, today)
    /\ getHabitStats(id).completed = 0 /\ getHabitStats(id).streak = 0

\* The names that are empty once trimmed.
Blank == {"", "  "}

\* C23: through the page no habit is stored under a name that is empty
\* once trimmed: Enter in the add or the edit form with such a name leaves
\* both entries of storage as they are and the form open.
C23_NoEmptyName ==
  [][/\ \A i \in DOMAIN LoadHabits' : LoadHabits'[i].name \notin Blank
     /\ (handleKeydown("Enter") /\ formOpen /\ newHabitName \in Blank) =>
          /\ storedHabits' = storedHabits
          /\ storedCompletions' = storedCompletions
          /\ isAddingHabit' = isAddingHabit
          /\ isEditingHabit' = isEditingHabit
    ]_vars

\* Enter pressed in the edit form of a stored habit, the name field holding
\* blanks: the form is still open and the habit has its name.
C23_Witness ==
  /\ lastKey = "Enter" /\ isEditingHabit /\ newHabitName = "  "
  /\ editingHabit # {}
  /\ \E i \in DOMAIN LoadHabits :
       /\ {LoadHabits[i].id} = {h.habit.id : h \in editingHabit}
       /\ LoadHabits[i].name = "Read"

\* C24: Space in the list view inverts whether the selected habit is in
\* today's bucket of storage, and leaves the list of the page equal to
\* getAllHabits(), also when the day has changed since the list was loaded.
C24_SpaceInvertsStored ==
  [][(handleKeydown(" ") /\ ~formOpen /\ At(selectedIndex) # {}) =>
       /\ \A h \in At(selectedIndex) :
            Includes(LoadCompletions', today, h.habit.id)
              # Includes(LoadCompletions, today, h.habit.id)
       /\ pageHabits' = getAllHabits'
    ]_vars

\* C25: Space, d or e with no habit at selectedIndex raises no failure and
\* leaves both entries of storage and the flags of the views as they are.
C25_NoHabitSelectedIsSafe ==
  [][((\E key \in {" ", "d", "e"} : handleKeydown(key))
        /\ ~formOpen /\ At(selectedIndex) = {}) =>
       /\ ~threw'
       /\ storedHabits' = storedHabits
       /\ storedCompletions' = storedCompletions
       /\ isAddingHabit' = isAddingHabit
       /\ isEditingHabit' = isEditingHabit
       /\ showingDetails' = showingDetails
    ]_vars

\* C26: selectedIndex is between 0 and the last index of the list, and 0
\* while the list is empty.
C26_SelectedIndexInList ==
  /\ 0 <= selectedIndex
  /\ selectedIndex <= Max(0, Len(pageHabits) - 1)

====
